---- MODULE Spec2Model ----
(***************************************************************************)
(* A model of the mysensors gateway translator: the wire codec             *)
(* (message.go), the protocol Handler with its reader and writer           *)
(* goroutines (handle.go), the Network/Node/Sensor/Var model and the       *)
(* main message loop with the MQTT hand-off.                               *)
(*                                                                         *)
(* Text (wire lines, payloads, map keys) is a sequence of one-character    *)
(* strings, so that formatting and parsing are computed, not assumed.      *)
(***************************************************************************)
EXTENDS Integers, Sequences, FiniteSets, TLC

(***************************************************************************)
(* Bounds of the model.                                                    *)
(***************************************************************************)
\* Number of lines the link delivers in one run.
MaxLines == 3
\* Largest number of ';'-separated fields of the lines given to the codec.
MaxFields == 7

(***************************************************************************)
(* Program constants.                                                      *)
(***************************************************************************)
NoAck == 0
Ack == 1

MsgPresentation == 0
MsgSet == 1
MsgReq == 2
MsgInternal == 3
MsgStream == 4

S_DOOR == 0
S_TEMP == 6
S_MOISTURE == 35

V_TEMP == 0
V_HUM == 1
V_STATUS == 2
V_PERCENTAGE == 3
V_PRESSURE == 4
V_LIGHT_LEVEL == 23
V_VOLUME == 35
V_LEVEL == 37
V_VOLTAGE == 38

I_BATTERY_LEVEL == 0
I_TIME == 1
I_VERSION == 2
I_ID_REQUEST == 3
I_ID_RESPONSE == 4
I_CONFIG == 6
I_SKETCH_NAME == 11
I_SKETCH_VERSION == 12
I_GATEWAY_READY == 14

\* len(subTypeSetReq): subTypeSetReq[t] panics for t >= this.
LenSubTypeSetReq == 47

FirstNodeID == 1
GatewayID == 0
NoChild == 255

\* uint8 arithmetic is modulo this.
Uint8Mod == 256

(***************************************************************************)
(* Text helpers: strconv and strings.                                      *)
(***************************************************************************)
Digits == <<"0", "1", "2", "3", "4", "5", "6", "7", "8", "9">>

IsDigit(c) == \E d \in 1..10 : Digits[d] = c

DigitVal(c) == (CHOOSE d \in 1..10 : Digits[d] = c) - 1

\* strconv.Itoa / strconv.FormatInt(n, 10)
RECURSIVE Itoa(_)
Itoa(n) ==
    IF n < 0 THEN <<"-">> \o Itoa(-n)
    ELSE IF n < 10 THEN <<Digits[n + 1]>>
    ELSE Itoa(n \div 10) \o <<Digits[(n % 10) + 1]>>

RECURSIVE DigitsVal(_)
DigitsVal(s) ==
    IF s = <<>> THEN 0
    ELSE 10 * DigitsVal(SubSeq(s, 1, Len(s) - 1)) + DigitVal(s[Len(s)])

AllDigits(s) == s /= <<>> /\ \A i \in 1..Len(s) : IsDigit(s[i])

\* strconv.Atoi: an optional sign, then one or more decimal digits.
\* (The model's integer fields are short; the range error of very long
\* digit strings is outside the lines the model draws.)
Signed(s) == s /= <<>> /\ s[1] \in {"+", "-"}
Negative(s) == s /= <<>> /\ s[1] = "-"
Unsigned(s) == IF Signed(s) THEN Tail(s) ELSE s

AtoiOf(neg, body) ==
    IF AllDigits(body)
    THEN [err |-> FALSE, val |-> IF neg THEN -DigitsVal(body) ELSE DigitsVal(body)]
    ELSE [err |-> TRUE, val |-> 0]

Atoi(s) == AtoiOf(Negative(s), Unsigned(s))

\* Conversion of an int to uint8.
ToUint8(n) == n % Uint8Mod

\* strings.TrimSuffix(s, "\n")
TrimSuffix(s) ==
    IF s /= <<>> /\ s[Len(s)] = "\n" THEN SubSeq(s, 1, Len(s) - 1) ELSE s

\* strings.Index(s, sep) for a one-character sep, 1-based; 0 when absent.
RECURSIVE IndexFrom(_, _, _)
IndexFrom(s, sep, i) ==
    IF i > Len(s) THEN 0
    ELSE IF s[i] = sep THEN i
    ELSE IndexFrom(s, sep, i + 1)

Index(s, sep) == IndexFrom(s, sep, 1)

\* strings.SplitN(s, sep, n) with n > 0: at most n parts, the last one the
\* unsplit remainder.
RECURSIVE SplitN(_, _, _)
RECURSIVE SplitAt(_, _, _, _)
SplitN(s, sep, n) == IF n <= 1 THEN <<s>> ELSE SplitAt(s, sep, n, Index(s, sep))

SplitAt(s, sep, n, i) ==
    IF i = 0 THEN <<s>>
    ELSE <<SubSeq(s, 1, i - 1)>> \o SplitN(SubSeq(s, i + 1, Len(s)), sep, n - 1)

\* strings.Join(parts, sep)
RECURSIVE Join(_, _)
Join(parts, sep) ==
    IF parts = <<>> THEN <<>>
    ELSE IF Len(parts) = 1 THEN parts[1]
    ELSE parts[1] \o <<sep>> \o Join(Tail(parts), sep)

(***************************************************************************)
(* Message and the wire codec (message.go).                                *)
(***************************************************************************)
\* A SubType interface value: its dynamic type and its uint8 value; the nil
\* interface is NilSubType.
NilSubType == [kind |-> "nil", v |-> 0]
SubTypePresentation(v) == [kind |-> "presentation", v |-> ToUint8(v)]
SubTypeSetReq(v) == [kind |-> "setreq", v |-> ToUint8(v)]
SubTypeInternal(v) == [kind |-> "internal", v |-> ToUint8(v)]

\* &Message{}
ZeroMessage ==
    [NodeID |-> 0, ChildSensorID |-> 0, Type |-> 0, Ack |-> 0,
     SubType |-> NilSubType, Payload |-> <<>>]

\* What fmt prints for a nil interface under the verb %d.
NilVerb == <<"%", "!", "d", "(", "<", "n", "i", "l", ">", ")">>

\* Message.Marshal: fmt.Sprintf("%d;%d;%d;%d;%d;%s\n", ...)
Marshal(m) ==
    Itoa(m.NodeID) \o <<";">> \o Itoa(m.ChildSensorID) \o <<";">> \o
    Itoa(m.Type) \o <<";">> \o Itoa(m.Ack) \o <<";">> \o
    (IF m.SubType.kind = "nil" THEN NilVerb ELSE Itoa(m.SubType.v)) \o
    <<";">> \o m.Payload \o <<"\n">>

\* Mutant: the line is split at every ';' (strings.Split).
UnmarshalPartsAll(b) == SplitN(TrimSuffix(b), ";", Len(b) + 1)

\* Number of parts Unmarshal asks SplitN for, and requires.
WireParts == 6

\* The parts of a line as Unmarshal sees them.
UnmarshalParts(b) == SplitN(TrimSuffix(b), ";", WireParts)

\* The SubType Unmarshal stores for the wire integer v under Type t.
SubTypeFor(t, v) ==
    IF t = MsgPresentation THEN SubTypePresentation(v)
    ELSE IF t \in {MsgSet, MsgReq} THEN SubTypeSetReq(v)
    ELSE IF t = MsgInternal THEN SubTypeInternal(v)
    ELSE NilSubType

\* A Message with the given fields.
Msg(nodeID, childID, mType, ack, subType, payload) ==
    [NodeID |-> nodeID, ChildSensorID |-> childID, Type |-> mType, Ack |-> ack,
     SubType |-> subType, Payload |-> payload]

\* Message.Unmarshal after the split, given what strconv.Atoi returned for
\* the five leading parts: the fields are assigned up to the first failure.
UnmarshalFields(nodeID, childID, mType, ack, subType, payload) ==
    IF nodeID.err THEN [err |-> TRUE, m |-> ZeroMessage]
    ELSE IF childID.err
    THEN [err |-> TRUE, m |-> Msg(ToUint8(nodeID.val), 0, 0, 0, NilSubType, <<>>)]
    ELSE IF mType.err
    THEN [err |-> TRUE,
          m |-> Msg(ToUint8(nodeID.val), ToUint8(childID.val), 0, 0, NilSubType, <<>>)]
    ELSE IF ack.err
    THEN [err |-> TRUE,
          m |-> Msg(ToUint8(nodeID.val), ToUint8(childID.val), ToUint8(mType.val), 0,
                    NilSubType, <<>>)]
    ELSE IF subType.err
    THEN [err |-> TRUE,
          m |-> Msg(ToUint8(nodeID.val), ToUint8(childID.val), ToUint8(mType.val),
                    ToUint8(ack.val), NilSubType, <<>>)]
    ELSE [err |-> FALSE,
          m |-> Msg(ToUint8(nodeID.val), ToUint8(childID.val), ToUint8(mType.val),
                    ToUint8(ack.val), SubTypeFor(ToUint8(mType.val), subType.val),
                    payload)]

\* Message.Unmarshal from the split on: the check of the number of parts.
UnmarshalSplit(parts) ==
    IF Len(parts) /= WireParts THEN [err |-> TRUE, m |-> ZeroMessage]
    ELSE UnmarshalFields(Atoi(parts[1]), Atoi(parts[2]), Atoi(parts[3]), Atoi(parts[4]),
                         Atoi(parts[5]), parts[6])

\* Message.Unmarshal on a fresh Message: the error it returns and the
\* Message as it stands on return.
Unmarshal(b) == UnmarshalSplit(UnmarshalParts(b))

\* Message.Copy: Unmarshal(Marshal(m)), panicking on an error.
CopyOf(u) == [panic |-> u.err, m |-> u.m]

Copy(m) == CopyOf(Unmarshal(Marshal(m)))

(***************************************************************************)
(* strconv.ParseInt / ParseFloat / FormatFloat.                            *)
(*                                                                         *)
(* A float64 is modelled by its value in hundredths (an integer): the      *)
(* payloads the model draws are decimal numbers with at most two fraction  *)
(* digits and at most nine digits in all, on which this is exact.          *)
(***************************************************************************)
MaxInt32 == 2147483647

\* strconv.ParseInt(s, 10, 32): the value is 0 on a syntax error and the
\* nearest int32 on a range error.
ParseInt32Of(neg, body) ==
    IF ~AllDigits(body) THEN [err |-> TRUE, val |-> 0]
    ELSE IF Len(body) > 9
    THEN [err |-> TRUE, val |-> IF neg THEN -MaxInt32 - 1 ELSE MaxInt32]
    ELSE [err |-> FALSE, val |-> IF neg THEN -DigitsVal(body) ELSE DigitsVal(body)]

ParseInt32(s) == ParseInt32Of(Negative(s), Unsigned(s))

\* Hundredths per unit.
FloatScale == 100

DigitsOrEmpty(t) == \A i \in 1..Len(t) : IsDigit(t[i])

\* strconv.ParseFloat(s, 64) on decimal text: [sign] digits [ "." digits ];
\* ip and fp are the digits before and after the point.
ParseFloatOf(neg, ip, fp) ==
    IF DigitsOrEmpty(ip) /\ DigitsOrEmpty(fp) /\ Len(ip) + Len(fp) > 0
    THEN [err |-> FALSE,
          val |-> (IF neg THEN -1 ELSE 1) *
                  (FloatScale * DigitsVal(ip) + DigitsVal(SubSeq(fp \o <<"0", "0">>, 1, 2)))]
    ELSE [err |-> TRUE, val |-> 0]

ParseFloatAt(neg, body, dot) ==
    IF dot = 0 THEN ParseFloatOf(neg, body, <<>>)
    ELSE ParseFloatOf(neg, SubSeq(body, 1, dot - 1), SubSeq(body, dot + 1, Len(body)))

ParseFloat(s) == ParseFloatAt(Negative(s), Unsigned(s), Index(Unsigned(s), "."))

\* strconv.FormatFloat(v, 'f', 2, 64)
Abs(v) == IF v < 0 THEN -v ELSE v

FormatFloat(v) ==
    (IF v < 0 THEN <<"-">> ELSE <<>>) \o Itoa(Abs(v) \div FloatScale) \o <<".">> \o
    <<Digits[((Abs(v) % FloatScale) \div 10) + 1], Digits[(Abs(v) % 10) + 1]>>

(***************************************************************************)
(* Maps and optional values.                                               *)
(***************************************************************************)
EmptyMap == [k \in {} |-> 0]

MapPut(f, k, v) == [x \in (DOMAIN f) \cup {k} |-> IF x = k THEN v ELSE f[x]]

\* A possibly-nil pointer: <<>> is nil, <<x>> points at x.
None == <<>>
Some(x) == <<x>>

(***************************************************************************)
(* Network / Node / Sensor / Var.                                          *)
(***************************************************************************)
varString == "string"
varFloat == "float"

\* The subtypes Sensor.HandleMessage stores as varFloat.
FloatSubTypes == {V_TEMP, V_HUM, V_PRESSURE, V_LEVEL, V_VOLUME, V_VOLTAGE, V_LIGHT_LEVEL}

\* The keys of GaugeMap.
GaugeMap == {V_TEMP, V_HUM, V_PRESSURE, V_LEVEL, V_LIGHT_LEVEL, V_VOLUME,
             V_PERCENTAGE, V_VOLTAGE}

\* &Var{Type: t}
NewVar(t) == [Name |-> <<>>, Type |-> t, SubType |-> 0, FloatVal |-> 0, StringVal |-> <<>>]

\* Mutant: the parsed value is stored before the error is looked at.
VarSetFloatUnchecked(v, f) == [v |-> [v EXCEPT !.FloatVal = f.val], err |-> f.err]

\* Var.Set: the Var afterwards and the error returned.
VarSetFloat(v, f) ==
    IF f.err THEN [v |-> v, err |-> TRUE]
    ELSE [v |-> [v EXCEPT !.FloatVal = f.val], err |-> FALSE]

VarSet(v, val) ==
    IF v.Type = varString THEN [v |-> [v EXCEPT !.StringVal = val], err |-> FALSE]
    ELSE IF v.Type = varFloat THEN VarSetFloat(v, ParseFloat(val))
    ELSE [v |-> v, err |-> FALSE]

\* Var.Value
VarValue(v) ==
    IF v.Type = varString THEN v.StringVal
    ELSE IF v.Type = varFloat THEN FormatFloat(v.FloatVal)
    ELSE <<>>

\* NewSensor
NewSensor == [ID |-> 0, Presentation |-> 0, Vars |-> EmptyMap]

\* NewNode
NewNode ==
    [ID |-> 0, Battery |-> 0, Location |-> <<>>, Version |-> <<>>,
     SketchName |-> <<>>, SketchVersion |-> <<>>, Sensors |-> EmptyMap]

\* Gauges.Set as a list of gauge updates <<subtype, labels, value>>: none
\* when the subtype has no entry in GaugeMap.
GaugesSet(t, l, v) == IF t \in GaugeMap THEN <<[t |-> t, l |-> l, v |-> v]>> ELSE <<>>

\* What a HandleMessage call leaves behind: the object afterwards, the error
\* returned, the reply it sends on tx (blocking until it is taken), the
\* gauge updates, and whether it panicked.
Outcome(obj, err, reply, gauge, panic) ==
    [obj |-> obj, err |-> err, reply |-> reply, gauge |-> gauge, panic |-> panic]

\* Mutant: every new Var is a string Var.
VarForAllString(s, t) == IF t \in DOMAIN s.Vars THEN s.Vars[t] ELSE NewVar(varString)

\* The Var a Set for subtype t finds or creates in s.Vars.
VarFor(s, t) ==
    IF t \in DOMAIN s.Vars THEN s.Vars[t]
    ELSE IF t \in FloatSubTypes THEN NewVar(varFloat)
    ELSE NewVar(varString)

\* Mutant: the gauge is set whatever the Var's Type.
SensorSetVarAnyKind(s, node, t, v) ==
    Outcome([s EXCEPT !.Vars = MapPut(s.Vars, t, v)], FALSE, None,
            GaugesSet(t, <<node.Location, Itoa(node.ID), Itoa(s.ID)>>, v.FloatVal), FALSE)

\* Sensor.HandleMessage, case MsgSet, once the Var v has its new value (the
\* error of Var.Set is not looked at).
SensorSetVar(s, node, t, v) ==
    Outcome([s EXCEPT !.Vars = MapPut(s.Vars, t, v)], FALSE, None,
            IF v.Type = varFloat
            THEN GaugesSet(t, <<node.Location, Itoa(node.ID), Itoa(s.ID)>>, v.FloatVal)
            ELSE <<>>,
            FALSE)

\* Sensor.HandleMessage, case MsgSet.
SensorSet(s, node, t, payload) ==
    IF t >= LenSubTypeSetReq THEN Outcome(s, FALSE, None, <<>>, TRUE)
    ELSE SensorSetVar(s, node, t, VarSet([VarFor(s, t) EXCEPT !.SubType = t], payload).v)

\* Sensor.HandleMessage, case MsgReq, given c = m.Copy().
SensorReqReply(s, t, c) ==
    IF c.panic THEN Outcome(s, FALSE, None, <<>>, TRUE)
    ELSE Outcome(s, FALSE,
                 Some([c.m EXCEPT !.SubType = SubTypeSetReq(t),
                                  !.Payload = IF t \in DOMAIN s.Vars
                                              THEN VarValue(s.Vars[t]) ELSE <<"0">>]),
                 <<>>, FALSE)

SensorReq(s, t, m) ==
    IF t >= LenSubTypeSetReq THEN Outcome(s, FALSE, None, <<>>, TRUE)
    ELSE SensorReqReply(s, t, Copy(m))

\* Sensor.HandleMessage after "s.ID = m.ChildSensorID"; node is the parent
\* Node (for the gauge labels). s.Vars is keyed by subType.String(), a name
\* which is one-to-one with the subtype's number below len(subTypeSetReq)
\* and a panic (index out of range) from there on: the model keys Vars by
\* the number.
SensorSwitch(s, node, m) ==
    IF m.Type = MsgPresentation
    THEN Outcome([s EXCEPT !.Presentation = m.SubType.v], FALSE, None, <<>>, FALSE)
    ELSE IF m.Type = MsgSet THEN SensorSet(s, node, m.SubType.v, m.Payload)
    ELSE IF m.Type = MsgReq THEN SensorReq(s, m.SubType.v, m)
    ELSE Outcome(s, FALSE, None, <<>>, FALSE)

\* Sensor.HandleMessage
SensorHandleMessage(s, node, m) ==
    SensorSwitch([s EXCEPT !.ID = m.ChildSensorID], node, m)

\* Node.handleMessage, case I_BATTERY_LEVEL, with b the parsed payload.
NodeBattery(n, b) ==
    Outcome([n EXCEPT !.Battery = b], FALSE, None,
            GaugesSet(V_PERCENTAGE, <<n.Location, Itoa(n.ID), <<"0">> >>, b), FALSE)

\* Node.handleMessage: a message to child NoChild.
NodehandleMessage(n, m) ==
    IF m.Type /= MsgInternal THEN Outcome(n, TRUE, None, <<>>, FALSE)
    ELSE IF m.SubType.v = I_BATTERY_LEVEL THEN NodeBattery(n, ParseInt32(m.Payload).val)
    ELSE IF m.SubType.v = I_VERSION
    THEN Outcome([n EXCEPT !.Version = m.Payload], FALSE, None, <<>>, FALSE)
    ELSE IF m.SubType.v = I_SKETCH_NAME
    THEN Outcome([n EXCEPT !.SketchName = m.Payload], FALSE, None, <<>>, FALSE)
    ELSE IF m.SubType.v = I_SKETCH_VERSION
    THEN Outcome([n EXCEPT !.SketchVersion = m.Payload], FALSE, None, <<>>, FALSE)
    ELSE Outcome(n, FALSE, None, <<>>, FALSE)

\* The Sensor Node.HandleMessage finds or creates under key sID.
SensorFor(n, sID) == IF sID \in DOMAIN n.Sensors THEN n.Sensors[sID] ELSE NewSensor

\* Node.HandleMessage once the Sensor has handled the message with outcome o.
NodeWithSensor(n, sID, o) == [o EXCEPT !.obj = [n EXCEPT !.Sensors = MapPut(n.Sensors, sID, o.obj)]]

\* Mutant: a message to child NoChild is routed to a Sensor like any other.
NodeRouteToSensor(n, m, sID) ==
    NodeWithSensor(n, sID, SensorHandleMessage(SensorFor(n, sID), n, m))

\* Node.HandleMessage after "n.ID = m.NodeID".
NodeRoute(n, m, sID) ==
    IF m.ChildSensorID = NoChild THEN NodehandleMessage(n, m)
    ELSE NodeWithSensor(n, sID, SensorHandleMessage(SensorFor(n, sID), n, m))

\* Mutant: the Node's ID is not set from the message.
NodeHandleMessageKeepsID(n, m) == NodeRoute(n, m, Itoa(m.ChildSensorID))

\* Node.HandleMessage
NodeHandleMessage(n, m) ==
    NodeRoute([n EXCEPT !.ID = m.NodeID], m, Itoa(m.ChildSensorID))

\* Network.HandleMessage up to the call of nd.HandleMessage: the node map
\* after the lookup-or-create.
NetworkLookupKey(nds, nID) == IF nID \in DOMAIN nds THEN nds ELSE MapPut(nds, nID, NewNode)

NetworkLookup(nds, m) == NetworkLookupKey(nds, Itoa(m.NodeID))

\* Network.HandleMessage on the node map nds: the outcome, with the node
\* map afterwards as its obj.
NetworkWithNode(nds, nID, o) == [o EXCEPT !.obj = [nds EXCEPT ![nID] = o.obj]]

NetworkHandleKey(nds, nID, m) == NetworkWithNode(nds, nID, NodeHandleMessage(nds[nID], m))

NetworkHandleMessage(nds, m) == NetworkHandleKey(NetworkLookup(nds, m), Itoa(m.NodeID), m)

\* Network.NextNodeID over the nodes' IDs in the order the map iteration
\* yields them; the addition is uint8.
RECURSIVE NextNodeIDFrom(_, _)
NextNodeIDFrom(nextID, ids) ==
    IF ids = <<>> THEN nextID
    ELSE NextNodeIDFrom(IF ids[1] >= nextID THEN ToUint8(ids[1] + 1) ELSE nextID,
                        Tail(ids))

NextNodeID(ids) == NextNodeIDFrom(FirstNodeID, ids)

\* The orders in which a range over a map with key set K can yield the keys.
Orders(K) ==
    {o \in [1..Cardinality(K) -> K] : \A i, j \in 1..Cardinality(K) : i /= j => o[i] /= o[j]}

\* The IDs of the nodes of a node map, in iteration order o.
IDsInOrder(nodes, o) == [i \in 1..Len(o) |-> nodes[o[i]].ID]

\* json.Marshal of a Go string: the JSON string is valid UTF-8, every byte
\* of the Go string that is not part of a valid encoding being replaced by
\* U+FFFD, whose encoding is the three bytes EF BF BD. "xFF" stands for the
\* byte 0xFF, which is part of no valid encoding.
RECURSIVE ToValidUTF8(_)
ToValidUTF8(s) ==
    IF s = <<>> THEN <<>>
    ELSE (IF Head(s) = "xFF" THEN <<"xEF", "xBF", "xBD">> ELSE <<Head(s)>>)
         \o ToValidUTF8(Tail(s))

\* json.Marshal of a Var, a Sensor, a Node and the Network: an object with
\* one member for each exported field that is not tagged json:"-" (the
\* back-references node and network, the gauges and Tx are left out), a map
\* being an object with a member for each key.
SaveVar(v) ==
    [Name |-> ToValidUTF8(v.Name), Type |-> v.Type, SubType |-> v.SubType,
     FloatVal |-> v.FloatVal, StringVal |-> ToValidUTF8(v.StringVal)]

SaveSensor(sn) ==
    [ID |-> sn.ID, Presentation |-> sn.Presentation,
     Vars |-> [k \in DOMAIN sn.Vars |-> SaveVar(sn.Vars[k])]]

SaveNode(n) ==
    [ID |-> n.ID, Battery |-> n.Battery, Location |-> ToValidUTF8(n.Location),
     Version |-> ToValidUTF8(n.Version), SketchName |-> ToValidUTF8(n.SketchName),
     SketchVersion |-> ToValidUTF8(n.SketchVersion),
     Sensors |-> [k \in DOMAIN n.Sensors |-> SaveSensor(n.Sensors[k])]]

\* Network.SaveJson: the snapshot written to the state file.
SaveJson(nds) == [Nodes |-> [k \in DOMAIN nds |-> SaveNode(nds[k])]]

\* json.Unmarshal into a Var, a Sensor and a Node: the members of the object
\* are stored in the fields of their names.
LoadVar(j) ==
    [NewVar(j.Type) EXCEPT !.Name = j.Name, !.SubType = j.SubType,
                           !.FloatVal = j.FloatVal, !.StringVal = j.StringVal]

LoadSensor(j) ==
    [ID |-> j.ID, Presentation |-> j.Presentation,
     Vars |-> [k \in DOMAIN j.Vars |-> LoadVar(j.Vars[k])]]

LoadNode(j) ==
    [ID |-> j.ID, Battery |-> j.Battery, Location |-> j.Location, Version |-> j.Version,
     SketchName |-> j.SketchName, SketchVersion |-> j.SketchVersion,
     Sensors |-> [k \in DOMAIN j.Sensors |-> LoadSensor(j.Sensors[k])]]

\* Network.LoadJson on the node map nds with the state file f. None: there
\* is no file, nil is returned and the Network is left as it is. A file is
\* given by what json.Unmarshal reads in it: [SyntaxError |-> TRUE] for
\* bytes that are no JSON text (the error is returned), else an object. A
\* member of "Nodes" that is null ([null |-> TRUE]) is stored as a nil
\* *Node, and "node.network = n" in the loop that follows dereferences it:
\* a panic. Otherwise the member "Nodes" is merged into n.Nodes.
LoadJson(nds, f) ==
    IF f = None THEN Outcome(nds, FALSE, None, <<>>, FALSE)
    ELSE IF "SyntaxError" \in DOMAIN f[1] THEN Outcome(nds, TRUE, None, <<>>, FALSE)
    ELSE IF "Nodes" \notin DOMAIN f[1] THEN Outcome(nds, FALSE, None, <<>>, FALSE)
    ELSE IF \E k \in DOMAIN f[1].Nodes : DOMAIN f[1].Nodes[k] = {"null"}
    THEN Outcome(nds, FALSE, None, <<>>, TRUE)
    ELSE Outcome([k \in (DOMAIN nds) \cup (DOMAIN f[1].Nodes) |->
                     IF k \in DOMAIN f[1].Nodes THEN LoadNode(f[1].Nodes[k]) ELSE nds[k]],
                 FALSE, None, <<>>, FALSE)

(***************************************************************************)
(* Protocol Handler (handle.go).                                           *)
(***************************************************************************)
\* What one case of the switch in Handler.Start leaves behind: the request
\* as it stands afterwards, the reply r, whether h.ready was set inside the
\* process* call, whether the request is sent on h.c, whether h.ready is
\* set after the call returns, and whether the call panicked.
Handled(m, r, ready, fwd, panic) ==
    [m |-> m, r |-> r, ready |-> ready, fwd |-> fwd, readyAfter |-> FALSE,
     panic |-> panic]

\* Mutant: a Presentation makes the Handler READY.
processPresentationReady(m) == Handled(m, None, TRUE, TRUE, FALSE)

\* Handler.processPresentation
processPresentation(m) == Handled(m, None, FALSE, TRUE, FALSE)

\* Mutant: a Set is not sent on h.c.
processSetDropped(m) == Handled(m, None, FALSE, FALSE, FALSE)

\* Handler.processSet
processSet(m) == Handled(m, None, FALSE, TRUE, FALSE)

\* Handler.processReq
processReq(m) == Handled(m, None, FALSE, TRUE, FALSE)

\* Handler.processInternal given c = m.Copy() (made in the cases that
\* reply) and the result of h.network.NextNodeID().
processInternalWith(m, c, nextID, now) ==
    IF m.SubType.v = I_ID_REQUEST
    THEN Handled(m, Some([c.m EXCEPT !.SubType = SubTypeInternal(I_ID_RESPONSE),
                                     !.Payload = Itoa(nextID)]),
                 FALSE, FALSE, c.panic)
    ELSE IF m.SubType.v = I_CONFIG
    THEN Handled(m, Some([c.m EXCEPT !.SubType = SubTypeInternal(I_CONFIG),
                                     !.Payload = <<"M">>]),
                 FALSE, FALSE, c.panic)
    ELSE IF m.SubType.v = I_GATEWAY_READY
    THEN Handled(m, None, TRUE, TRUE, FALSE)
    ELSE IF m.SubType.v = I_TIME
    THEN Handled(m, Some([c.m EXCEPT !.Payload = Itoa(now)]), FALSE, FALSE, c.panic)
    ELSE Handled(m, None, FALSE, TRUE, FALSE)

\* Mutant: the reply is built in the request itself, not in a copy.
InPlace(d) == IF d.r = None THEN d ELSE [d EXCEPT !.m = d.r[1]]

processInternalInPlace(m, ids, now) ==
    InPlace(processInternalWith(m, Copy(m), NextNodeID(ids), now))

\* Mutant: every Internal message is sent on h.c as well.
ForwardAlso(d) == [d EXCEPT !.fwd = TRUE]

processInternalForwardAll(m, ids, now) ==
    ForwardAlso(processInternalWith(m, Copy(m), NextNodeID(ids), now))

\* Handler.processInternal; ids are the node IDs as NextNodeID's range over
\* h.network.Nodes yields them, now is time.Now().Unix().
processInternal(m, ids, now) == processInternalWith(m, Copy(m), NextNodeID(ids), now)

\* The switch on m.Type in Handler.Start.
StartSwitch(m, ids, now) ==
    IF m.Type = MsgInternal THEN processInternal(m, ids, now)
    ELSE IF m.Type = MsgSet THEN [processSet(m) EXCEPT !.readyAfter = TRUE]
    ELSE IF m.Type = MsgReq THEN processReq(m)
    ELSE IF m.Type = MsgPresentation THEN processPresentation(m)
    ELSE Handled(m, None, FALSE, FALSE, FALSE)

\* Mutant: the reply is sent whatever h.ready is.
GateAnyState(isReady, r) == r /= None

\* The condition under which Handler.Start sends the reply on h.Tx.
Gate(isReady, r) == isReady /\ r /= None

(***************************************************************************)
(* The lines the link delivers.                                            *)
(***************************************************************************)
Line(fields) == Join(fields, ";") \o <<"\n">>

LineGatewayReady == Line(<<Itoa(0), Itoa(255), Itoa(3), Itoa(0), Itoa(14), <<"o", "k">> >>)
LineIDRequest    == Line(<<Itoa(255), Itoa(255), Itoa(3), Itoa(0), Itoa(3), <<>> >>)
LineConfig       == Line(<<Itoa(1), Itoa(255), Itoa(3), Itoa(0), Itoa(6), <<"0">> >>)
LineTime         == Line(<<Itoa(1), Itoa(255), Itoa(3), Itoa(1), Itoa(1), <<>> >>)
LineSet          == Line(<<Itoa(1), Itoa(1), Itoa(1), Itoa(0), Itoa(0), <<"2", "1", ".", "5">> >>)
LineReq          == Line(<<Itoa(1), Itoa(1), Itoa(2), Itoa(1), Itoa(0), <<>> >>)
LinePresentation == Line(<<Itoa(2), Itoa(1), Itoa(0), Itoa(0), Itoa(6), <<>> >>)
LineBattery      == Line(<<Itoa(255), Itoa(255), Itoa(3), Itoa(0), Itoa(0), <<"8", "7">> >>)
LineStream       == Line(<<Itoa(1), Itoa(1), Itoa(4), Itoa(0), Itoa(0), <<>> >>)
LineShort        == Line(<<<<"x">>, Itoa(1), Itoa(1)>>)

WireLines ==
    {LineGatewayReady, LineIDRequest, LineConfig, LineTime, LineSet, LineReq,
     LinePresentation, LineBattery, LineStream, LineShort}

\* The values time.Now().Unix() takes.
Times == {1700}

(***************************************************************************)
(* State.                                                                  *)
(***************************************************************************)
VARIABLES
    alive,      \* the process is running (no panic so far)
    broker,     \* the -broker flag is set, so MQTTClient.Start starts the listener
    nread,      \* number of lines read from the link
    rpc, rm,    \* messageReader: position; the decoded Message it holds
    hpc, hm, hr, hafter, ready,
                \* Handler.Start: position; m; r; pending h.ready = true; h.ready
    mpc, mm, mr,
                \* main's message loop: position; m; the reply blocked on tx
    wpc, wm,    \* messageWriter: position; m
    nodes,      \* Network.Nodes
    calls,      \* history: the calls of Network.HandleMessage, with the state before
                \* and the gauges after
    statefile,  \* the state file: None, or the snapshot SaveJson wrote
    gauges,     \* the gauges' values, by <<subtype, labels>>
    rxlog,      \* history: the Messages decoded from the link, in order
    hlog,       \* history: what the Handler's switch did with each Message
    fwdlog,     \* history: the Messages sent on h.c
    netlog,     \* history: the Messages given to Network.HandleMessage
    errlog,     \* history: the Messages for which HandleMessage returned an error
    bus,        \* history: the Messages published by the MQTT listener
    written,    \* history: the lines written to the link
    op, arg, res
                \* a single call of a function of the package: which one was
                \* applied ("init": none yet), its argument, its result

readerVars == <<nread, rpc, rm, rxlog>>
handlerVars == <<hpc, hm, hr, hafter, ready, hlog, fwdlog>>
mainVars == <<mpc, mm, mr, netlog, errlog>>
listenerVars == <<bus>>
writerVars == <<wpc, wm, written>>
netVars == <<nodes, gauges, calls, statefile>>
callVars == <<op, arg, res>>
vars == <<alive, broker, readerVars, handlerVars, mainVars, listenerVars, writerVars,
          netVars, callVars>>

\* A reply travelling on h.Tx, with its history: who built it and whether
\* h.ready held when it was built.
Reply(m, src, isReady) == [m |-> m, src |-> src, readyAtCompute |-> isReady]

\* The argument and the result of a call, and their blanks.
Arg(kind, m, fields, ids) == [kind |-> kind, m |-> m, fields |-> fields, ids |-> ids]
Res(err, m, delivered, id) == [err |-> err, m |-> m, delivered |-> delivered, id |-> id]
NoArg == Arg("none", ZeroMessage, <<>>, <<>>)
NoRes == Res(FALSE, ZeroMessage, None, 0)

\* The state main has built when the goroutines start.
Pipeline ==
    /\ alive = TRUE
    /\ broker \in BOOLEAN
    /\ nread = 0
    /\ rpc = "read" /\ rm = ZeroMessage
    /\ hpc = "recv" /\ hm = ZeroMessage /\ hr = None /\ hafter = FALSE
    /\ ready = FALSE
    /\ mpc = "recv" /\ mm = ZeroMessage /\ mr = None
    /\ wpc = "recv" /\ wm = None
    /\ nodes = EmptyMap
    /\ gauges = EmptyMap
    /\ calls = <<>>
    /\ rxlog = <<>> /\ hlog = <<>> /\ fwdlog = <<>> /\ netlog = <<>>
    /\ errlog = <<>> /\ bus = <<>> /\ written = <<>>

Init ==
    /\ Pipeline
    /\ statefile = None
    /\ op = "pipeline" /\ arg = NoArg /\ res = NoRes

(***************************************************************************)
(* messageReader                                                           *)
(***************************************************************************)
\* r.ReadBytes('\n') and m.Unmarshal(d): a line that does not decode is
\* logged and skipped, a decoded Message is next sent on the read channel.
\* One iteration of messageReader on the bytes d: the Message it sends on
\* the read channel, if any.
messageReader(d) ==
    LET u == Unmarshal(d)
    IN  IF u.err THEN None ELSE Some(u.m)

\* messageReader has a line to read.
CanReadLine == alive /\ rpc = "read" /\ nread < MaxLines

\* The reader's state after an iteration that sends c, or nothing.
ReaderSends(c) ==
    IF c = None
    THEN UNCHANGED <<rpc, rm, rxlog>>
    ELSE /\ rpc' = "send"
         /\ rm' = c[1]
         /\ rxlog' = Append(rxlog, c[1])

ReadLine ==
    /\ CanReadLine
    /\ nread' = nread + 1
    /\ \E d \in WireLines : ReaderSends(messageReader(d))
    /\ UNCHANGED <<alive, broker, handlerVars, mainVars, listenerVars, writerVars, netVars, callVars>>

\* r.ReadBytes returns an error: log.Fatalf prints it and ends the process
\* (os.Exit(1)). Neither the break that follows nor any close of the read
\* channel is reached, so "for m := range rCh" in Start never ends and the
\* close(h.c) after it never runs.
ReadError ==
    /\ alive /\ rpc = "read"
    /\ rpc' = "fatal"
    /\ alive' = FALSE
    /\ UNCHANGED <<broker, nread, rm, rxlog, handlerVars, mainVars, listenerVars, writerVars,
                   netVars, callVars>>

(***************************************************************************)
(* Handler.Start                                                           *)
(*                                                                         *)
(* An action runs a goroutine from one channel operation to the next: the  *)
(* statements in between touch only the goroutine's own state, except the  *)
(* read of the node map by NextNodeID, which is made at the receive.       *)
(***************************************************************************)
\* "if h.ready && r != nil" and what follows: the send on h.Tx, or the
\* next iteration.
AfterGate(isReady, r) == IF Gate(isReady, r) THEN "tx" ELSE "recv"

\* The channel operations that can complete, and the steps that can be taken.
CanHRecv == alive /\ rpc = "send" /\ hpc = "recv"
CanHForward == alive /\ hpc = "forward" /\ mpc = "recv"
CanHandlerTx == alive /\ hpc = "tx" /\ wpc = "recv"
CanMainMqtt == alive /\ mpc = "mqtt" /\ broker
CanMainHandle == alive /\ mpc = "handle"
CanNetworkTx == alive /\ mpc = "tx" /\ wpc = "recv"
CanWriterWrite == alive /\ wpc = "write"

\* The Handler's next step ranges over h.network.Nodes (NextNodeID, for an
\* ID_REQUEST), and main's next step is Network.HandleMessage, which writes
\* the Nodes it finds or creates; nothing orders the two.
HandlerReadsNodes == CanHRecv /\ rm.Type = MsgInternal /\ rm.SubType.v = I_ID_REQUEST
MainWritesNodes == CanMainHandle
MainInsertsNode == CanMainHandle /\ Itoa(mm.NodeID) \notin DOMAIN nodes

\* The reply of the switch as it travels on.
HandlerReply(d, isReady) ==
    IF d.r = None THEN None ELSE Some(Reply(d.r[1], "handler", isReady))

\* The Handler's state after the switch left d behind.
HSwitched(d) ==
    /\ alive' = ~d.panic
    /\ hm' = d.m
    /\ hafter' = (d.fwd /\ d.readyAfter)
    /\ ready' = (ready \/ d.ready \/ (~d.fwd /\ d.readyAfter))
    /\ hpc' = IF d.fwd THEN "forward"
              ELSE AfterGate(ready', HandlerReply(d, ready \/ d.ready))
    /\ hr' = IF d.fwd \/ Gate(ready', d.r) THEN HandlerReply(d, ready \/ d.ready)
             ELSE None
    /\ hlog' = Append(hlog, [m |-> rm, after |-> d.m, r |-> d.r, fwd |-> d.fwd,
                             nodes |-> nodes, wasReady |-> ready, isReady |-> ready'])

\* c <- m in messageReader meets "for m := range rCh"; the switch on m.Type
\* runs up to the send on h.c, or, with nothing to forward, through the gate.
HRecv ==
    /\ CanHRecv
    /\ rpc' = "read"
    /\ \E o \in Orders(DOMAIN nodes), now \in Times :
         HSwitched(StartSwitch(rm, IDsInOrder(nodes, o), now))
    /\ UNCHANGED <<broker, nread, rm, rxlog, fwdlog, mainVars, listenerVars, writerVars,
                   netVars, callVars>>

\* NextNodeID's range over n.Nodes runs while Network.HandleMessage assigns
\* n.Nodes[nID]: one outcome of the unsynchronised accesses is the runtime's
\* fatal error "concurrent map iteration and map write" (the others, the
\* range seeing the map before or after the assignment, are HRecv before or
\* after MainHandle).
HRecvFatal ==
    /\ HandlerReadsNodes /\ MainInsertsNode
    /\ alive' = FALSE
    /\ UNCHANGED <<broker, readerVars, handlerVars, mainVars, listenerVars, writerVars,
                   netVars, callVars>>

\* h.c <- m meets "for m := range ch" in main; back in Start, h.ready = true
\* for a Set, then the gate.
HForward ==
    /\ CanHForward
    /\ fwdlog' = Append(fwdlog, hm)
    /\ mpc' = "mqtt"
    /\ mm' = hm
    /\ ready' = (ready \/ hafter)
    /\ hafter' = FALSE
    /\ hpc' = AfterGate(ready', hr)
    /\ hr' = IF Gate(ready', hr) THEN hr ELSE None
    /\ UNCHANGED <<alive, broker, readerVars, hm, hlog, mr, netlog, errlog, listenerVars,
                   writerVars, netVars, callVars>>

\* h.Tx <- r meets "for m := range c" in messageWriter.
HandlerTx ==
    /\ CanHandlerTx
    /\ hpc' = "recv"
    /\ hr' = None
    /\ wpc' = "write"
    /\ wm' = hr
    /\ UNCHANGED <<alive, broker, readerVars, hm, hafter, ready, hlog, fwdlog, mainVars,
                   listenerVars, written, netVars, callVars>>

(***************************************************************************)
(* main's message loop and the MQTT listener                               *)
(***************************************************************************)
\* mqttCh <- m meets "for msg := range m.msgChan", and the listener
\* publishes msg. With no broker set, MQTTClient.Start has started no
\* listener and the send never completes.
MainMqtt ==
    /\ CanMainMqtt
    /\ mpc' = "handle"
    /\ bus' = Append(bus, mm)
    /\ UNCHANGED <<alive, broker, readerVars, handlerVars, mm, mr, netlog, errlog,
                   writerVars, netVars, callVars>>

\* The state of main and of the Network after net.HandleMessage(m, h.Tx)
\* left o behind.
HandleMessageDone(m, o) ==
    /\ alive' = ~o.panic
    /\ nodes' = o.obj
    /\ gauges' = IF o.gauge = <<>> THEN gauges
                 ELSE MapPut(gauges, <<o.gauge[1].t, o.gauge[1].l>>, o.gauge[1].v)
    /\ calls' = Append(calls, [m |-> m, nodes |-> nodes, gauges |-> gauges, o |-> o,
                                gaugesAfter |-> gauges'])
    /\ statefile' = statefile
    /\ netlog' = Append(netlog, m)
    /\ errlog' = IF o.err THEN Append(errlog, m) ELSE errlog
    /\ IF o.reply = None
       THEN mpc' = "recv" /\ mr' = None
       ELSE mpc' = "tx" /\ mr' = Some(Reply(o.reply[1], "network", ready))

\* main's state after net.HandleMessage left o behind.
MainHandled(o) == HandleMessageDone(mm, o)

\* net.HandleMessage(m, h.Tx), up to its return or to the send on tx.
MainHandle ==
    /\ CanMainHandle
    /\ MainHandled(NetworkHandleMessage(nodes, mm))
    /\ UNCHANGED <<broker, readerVars, handlerVars, mm, listenerVars, writerVars, callVars>>

\* tx <- r in Sensor.HandleMessage meets "for m := range c" in messageWriter.
NetworkTx ==
    /\ CanNetworkTx
    /\ mpc' = "recv"
    /\ mr' = None
    /\ wpc' = "write"
    /\ wm' = mr
    /\ UNCHANGED <<alive, broker, readerVars, handlerVars, mm, netlog, errlog,
                   listenerVars, written, netVars, callVars>>

(***************************************************************************)
(* messageWriter                                                           *)
(***************************************************************************)
\* m.Marshal() and h.w.Write(reply).
WriterWrite ==
    /\ CanWriterWrite
    /\ wpc' = "recv"
    /\ wm' = None
    /\ written' = Append(written, [line |-> Marshal(wm[1].m), m |-> wm[1].m,
                                   src |-> wm[1].src,
                                   readyAtCompute |-> wm[1].readyAtCompute,
                                   readyAtWrite |-> ready])
    /\ UNCHANGED <<alive, broker, readerVars, handlerVars, mainVars, listenerVars, netVars, callVars>>

Next ==
    \/ ReadLine
    \/ ReadError
    \/ HRecv
    \/ HRecvFatal
    \/ HForward
    \/ HandlerTx
    \/ MainMqtt
    \/ MainHandle
    \/ NetworkTx
    \/ WriterWrite

Spec == Init /\ [][Next]_vars

(***************************************************************************)
(* Single calls of the package's functions: the argument is drawn in the   *)
(* initial state and one action applies the function to it.                *)
(***************************************************************************)
\* Node and child IDs the arguments are drawn from (0..255 at its ends and
\* at the changes in the number of digits).
IDSample == {0, 9, 10, 255}

\* Payloads of the Messages drawn.
PayloadSample == {<<>>, <<"2", "1", ".", "5">>, <<"o", "n", " ", "x">>}

\* SubTypes of each Type's enumeration; Stream has none, and Unmarshal
\* leaves SubType nil for it.
SubTypeSample(t) ==
    IF t = MsgPresentation THEN {SubTypePresentation(S_DOOR), SubTypePresentation(S_TEMP)}
    ELSE IF t \in {MsgSet, MsgReq} THEN {SubTypeSetReq(V_TEMP), SubTypeSetReq(V_VOLTAGE)}
    ELSE IF t = MsgInternal
    THEN {SubTypeInternal(I_BATTERY_LEVEL), SubTypeInternal(I_GATEWAY_READY)}
    ELSE {NilSubType}

MsgTypes == {MsgPresentation, MsgSet, MsgReq, MsgInternal, MsgStream}

\* The valid Messages drawn.
ValidMessages ==
    UNION {{Msg(n, c, t, a, st, p) : n \in IDSample, c \in {0, NoChild}, a \in {NoAck, Ack},
                                     st \in SubTypeSample(t), p \in PayloadSample}
           : t \in MsgTypes}

\* The texts the fields of the lines drawn are made of.
FieldTexts == {<<"1">>, <<"-", "2">>, <<"x">>, <<>>}

\* The lines drawn, as their ';'-separated fields.
FieldLists == UNION {[1..k -> FieldTexts] : k \in 1..MaxFields}

\* Node IDs of the Networks drawn, and the orders a range over the node map
\* can yield them in.
NodeIDSample == {0, 1, 2, 254, 255}

IDOrders == UNION {Orders(K) : K \in SUBSET NodeIDSample}

CallArgs ==
    {Arg("message", m, <<>>, <<>>) : m \in ValidMessages}
    \cup {Arg("line", ZeroMessage, f, <<>>) : f \in FieldLists}
    \cup {Arg("ids", ZeroMessage, <<>>, o) : o \in IDOrders}

CallInit ==
    /\ Pipeline
    /\ statefile = None
    /\ op = "init" /\ arg \in CallArgs /\ res = NoRes

\* Unmarshal(Marshal(m)), with the err and m of the result.
ApplyRoundTripTo(u) ==
    /\ op' = "roundtrip"
    /\ res' = Res(u.err, u.m, None, 0)

ApplyRoundTrip ==
    /\ op = "init" /\ arg.kind = "message"
    /\ ApplyRoundTripTo(Unmarshal(Marshal(arg.m)))
    /\ UNCHANGED <<arg, alive, broker, readerVars, handlerVars, mainVars, listenerVars,
                   writerVars, netVars>>

\* Unmarshal, and one iteration of messageReader, on a line.
ApplyUnmarshalTo(u, c) ==
    /\ op' = "unmarshal"
    /\ res' = Res(u.err, u.m, c, 0)

ApplyUnmarshal ==
    /\ op = "init" /\ arg.kind = "line"
    /\ ApplyUnmarshalTo(Unmarshal(Line(arg.fields)), messageReader(Line(arg.fields)))
    /\ UNCHANGED <<arg, alive, broker, readerVars, handlerVars, mainVars, listenerVars,
                   writerVars, netVars>>

\* NextNodeID on a Network whose nodes' IDs the range yields as arg.ids.
ApplyNextNodeID ==
    /\ op = "init" /\ arg.kind = "ids"
    /\ op' = "nextnodeid"
    /\ res' = Res(FALSE, ZeroMessage, None, NextNodeID(arg.ids))
    /\ UNCHANGED <<arg, alive, broker, readerVars, handlerVars, mainVars, listenerVars,
                   writerVars, netVars>>

CallNext ==
    \/ ApplyRoundTrip
    \/ ApplyUnmarshal
    \/ ApplyNextNodeID

CallSpec == CallInit /\ [][CallNext]_vars

(***************************************************************************)
(* The Network on its own: main's loop takes the messages from a sample    *)
(* of what the Handler can forward, the replies sent on tx are written,    *)
(* and the process is interrupted and started again at most once.          *)
(***************************************************************************)
\* Number of calls of Network.HandleMessage in a behaviour.
MaxCalls == 3

\* Payloads: numbers and a text that is no number.
PNum == <<"2", "1", ".", "5">>
PNum2 == <<"1", "9">>
PNeg == <<"-", "3">>
PText == <<"o", "n", " ", "x">>
PBattery == <<"8", "7">>
\* A payload with a byte that is not valid UTF-8.
PBad == <<"2", "xFF">>

\* A subtype number past the end of subTypeSetReq.
V_UNNAMED == 200

\* The messages main's loop receives.
NetMessages ==
    {Msg(4, 1, MsgSet, NoAck, SubTypeSetReq(V_TEMP), PNum),
     Msg(4, 1, MsgSet, NoAck, SubTypeSetReq(V_TEMP), PNum2),
     Msg(4, 1, MsgSet, NoAck, SubTypeSetReq(V_TEMP), PText),
     Msg(4, 1, MsgSet, NoAck, SubTypeSetReq(V_STATUS), PText),
     Msg(4, 1, MsgSet, NoAck, SubTypeSetReq(V_PERCENTAGE), PNum),
     Msg(0, 2, MsgSet, Ack, SubTypeSetReq(V_VOLTAGE), PNeg),
     Msg(4, 1, MsgSet, NoAck, SubTypeSetReq(V_UNNAMED), PNum),
     Msg(4, 1, MsgReq, Ack, SubTypeSetReq(V_TEMP), <<>>),
     Msg(4, 1, MsgReq, NoAck, SubTypeSetReq(V_STATUS), <<>>),
     Msg(4, 1, MsgReq, NoAck, SubTypeSetReq(LenSubTypeSetReq), <<>>),
     Msg(4, 1, MsgPresentation, NoAck, SubTypePresentation(S_TEMP), <<>>),
     Msg(4, NoChild, MsgSet, NoAck, SubTypeSetReq(V_TEMP), PNum),
     Msg(4, NoChild, MsgInternal, NoAck, SubTypeInternal(I_BATTERY_LEVEL), PBattery),
     Msg(4, NoChild, MsgInternal, NoAck, SubTypeInternal(I_BATTERY_LEVEL), PNeg),
     Msg(4, NoChild, MsgInternal, NoAck, SubTypeInternal(I_SKETCH_NAME), PText),
     Msg(4, NoChild, MsgInternal, NoAck, SubTypeInternal(I_VERSION), PBad),
     Msg(4, 1, MsgInternal, NoAck, SubTypeInternal(I_BATTERY_LEVEL), PBattery)}

\* The state files the first run can find: none, bytes that are no JSON
\* text, and a JSON text with null in the place of Node 4.
BootFiles ==
    {None, Some([SyntaxError |-> TRUE]), Some([Nodes |-> (Itoa(4) :> [null |-> TRUE])])}

NetInit ==
    /\ Pipeline
    /\ broker
    /\ statefile \in BootFiles
    /\ op = "boot" /\ arg = NoArg /\ res = NoRes

\* main's state after net.LoadJson(*stateFile) left o behind: with an error
\* main ends the process (log.Fatalf), and a panic ends it too.
Loaded(o) ==
    /\ alive' = (~o.err /\ ~o.panic)
    /\ nodes' = o.obj
    /\ op' = IF o.err THEN "loaderror" ELSE IF o.panic THEN "loadpanic"
              ELSE IF op = "boot" THEN "net" ELSE "loaded"

\* The first run: NewNetwork and net.LoadJson(*stateFile).
NetStart ==
    /\ alive /\ op = "boot"
    /\ Loaded(LoadJson(EmptyMap, statefile))
    /\ UNCHANGED <<broker, readerVars, handlerVars, mainVars, listenerVars, writerVars,
                   gauges, calls, statefile, arg, res>>

\* "for m := range ch" in main receives a message and net.HandleMessage
\* runs on it, up to its return or to the send on tx.
NetHandle ==
    /\ alive /\ op \in {"net", "loaded", "resumed"} /\ mpc = "recv"
    /\ Len(calls) < MaxCalls
    /\ op' = IF op = "net" THEN "net" ELSE "resumed"
    /\ \E m \in NetMessages : HandleMessageDone(m, NetworkHandleMessage(nodes, m))
    /\ UNCHANGED <<broker, readerVars, handlerVars, mm, listenerVars, writerVars, arg, res>>

\* SIGINT: net.SaveJson(*stateFile) and os.Exit(0).
NetInterrupt ==
    /\ alive /\ op = "net"
    /\ statefile' = Some(SaveJson(nodes))
    /\ alive' = FALSE
    /\ op' = "saved"
    /\ UNCHANGED <<broker, readerVars, handlerVars, mainVars, listenerVars, writerVars,
                   nodes, gauges, calls, arg, res>>

\* The program is started again: NewNetwork and net.LoadJson(*stateFile).
NetRestart ==
    /\ ~alive /\ op = "saved"
    /\ Loaded(LoadJson(EmptyMap, statefile))
    /\ gauges' = EmptyMap
    /\ mpc' = "recv" /\ mr' = None
    /\ wpc' = "recv" /\ wm' = None
    /\ UNCHANGED <<broker, readerVars, handlerVars, mm, netlog, errlog, listenerVars,
                   written, calls, statefile, arg, res>>

NetNext ==
    \/ NetStart
    \/ NetHandle
    \/ NetworkTx
    \/ WriterWrite
    \/ NetInterrupt
    \/ NetRestart

NetSpec == NetInit /\ [][NetNext]_vars

(***************************************************************************)
(* Properties.                                                             *)
(***************************************************************************)
IsIDRequest(m) == m.Type = MsgInternal /\ m.SubType.v = I_ID_REQUEST
IsConfig(m) == m.Type = MsgInternal /\ m.SubType.v = I_CONFIG
IsTime(m) == m.Type = MsgInternal /\ m.SubType.v = I_TIME
IsGatewayReady(m) == m.Type = MsgInternal /\ m.SubType.v = I_GATEWAY_READY

\* The messages that make the Handler READY.
IsReadyTrigger(m) == m.Type = MsgSet \/ IsGatewayReady(m)

\* The replies built by the Handler that have left it: written, or held by
\* the writer, or on their way to it.
HandlerRepliesOut ==
    Cardinality({i \in 1..Len(written) : written[i].src = "handler"})
    + (IF wm /= None /\ wm[1].src = "handler" THEN 1 ELSE 0)
    + (IF hpc = "tx" THEN 1 ELSE 0)

\* C1: a reply the Handler computes while NOT_READY is never written to the
\* link, neither at once nor after the Handler has become READY: every
\* Handler reply that is written, held by the writer or waiting on h.Tx was
\* computed while READY, and there is exactly one of them for each reply
\* computed while READY.
C1_NotReadyRepliesDiscarded ==
    /\ \A i \in 1..Len(written) :
         written[i].src = "handler" => written[i].readyAtCompute
    /\ (wm /= None /\ wm[1].src = "handler") => wm[1].readyAtCompute
    /\ hpc = "tx" => (hr /= None /\ hr[1].readyAtCompute)
    /\ HandlerRepliesOut =
         Cardinality({i \in 1..Len(hlog) : hlog[i].r /= None /\ hlog[i].wasReady})

\* A reply was computed while NOT_READY, the Handler has since become READY
\* and has had a later reply written.
C1_Witness ==
    /\ ready
    /\ \E i \in 1..Len(hlog) : hlog[i].r /= None /\ ~hlog[i].wasReady
    /\ \E j \in 1..Len(written) : written[j].src = "handler"

\* C2: no line at all is written to the link while the Handler is
\* NOT_READY, whichever component produced it.
C2_NoWriteWhileNotReady == \A i \in 1..Len(written) : written[i].readyAtWrite

\* C3: the Handler starts NOT_READY; h.ready changes only from false to
\* true, and only in the processing of a GATEWAY_READY or a Set message;
\* and once such a message has been processed the Handler is READY.
C3_ReadyStateMachine ==
    /\ ~ready
    /\ [][ready' /= ready =>
            /\ ~ready /\ ready'
            /\ hlog' /= <<>>
            /\ IsReadyTrigger(hlog'[Len(hlog')].m)]_vars
    /\ [](\A i \in 1..Len(hlog) :
            (IsReadyTrigger(hlog[i].m) /\ (i < Len(hlog) \/ hpc /= "forward")) => ready)

\* A message that is no trigger was processed while NOT_READY and left the
\* Handler NOT_READY, and one was processed after it had become READY.
C3_Witness ==
    /\ ready
    /\ Len(hlog) >= 3
    /\ ~IsReadyTrigger(hlog[1].m) /\ ~hlog[1].isReady
    /\ ~IsReadyTrigger(hlog[Len(hlog)].m) /\ hlog[Len(hlog)].wasReady
    /\ hpc = "recv"

\* The ID_REQUESTs read from the link after a GATEWAY_READY or a Set.
IDRequestsAfterReady ==
    {i \in 1..Len(rxlog) :
        IsIDRequest(rxlog[i]) /\ \E j \in 1..(i - 1) : IsReadyTrigger(rxlog[j])}

\* The ID_RESPONSE lines written to the link.
IDResponsesWritten ==
    {i \in 1..Len(written) :
        written[i].m.Type = MsgInternal /\ written[i].m.SubType.v = I_ID_RESPONSE}

\* Every goroutine is blocked: the reader waits for the link or for the
\* Handler, and no other channel operation or step can be taken.
AllBlocked ==
    ~(CanHRecv \/ CanHForward \/ CanHandlerTx \/ CanMainMqtt \/ CanMainHandle
      \/ CanNetworkTx \/ CanWriterWrite)

\* C4: once GATEWAY_READY or a Set has been observed, every later
\* ID_REQUEST read from the link results in exactly one ID_RESPONSE written:
\* there are never more responses than such requests, and with the link
\* accepting writes the pipeline does not come to rest (every goroutine
\* blocked) with such a request unanswered.
C4_EveryIDRequestAnswered ==
    /\ Cardinality(IDResponsesWritten) <= Cardinality(IDRequestsAfterReady)
    /\ (alive /\ AllBlocked) =>
          Cardinality(IDResponsesWritten) = Cardinality(IDRequestsAfterReady)

\* C5: the IDs of the ID_RESPONSEs written go strictly up: no two
\* ID_REQUESTs are answered with the same ID, nor a later one with a lower.
C5_AssignedIDsIncrease ==
    \A i, j \in IDResponsesWritten :
        i < j => Atoi(written[i].m.Payload).val < Atoi(written[j].m.Payload).val

\* The largest element of a non-empty sequence of numbers.
SeqMax(ids) == CHOOSE x \in {ids[i] : i \in 1..Len(ids)} :
                   \A i \in 1..Len(ids) : ids[i] <= x

\* C6: NextNodeID returns 1 on a Network with no nodes, and otherwise one
\* more than the largest existing Node ID, for every set of IDs in 0..255.
C6_NextNodeIDIsMaxPlusOne ==
    op = "nextnodeid" =>
        res.id = (IF arg.ids = <<>> THEN 1 ELSE SeqMax(arg.ids) + 1)

\* The Handler has processed an ID_REQUEST, recorded as entry e of hlog.
IDRequestHandled(e) == IsIDRequest(e.m)

\* C7: the reply to an ID_REQUEST has the request's NodeID, ChildSensorID,
\* Type and Ack, SubType ID_RESPONSE and as payload the decimal text of
\* NextNodeID on the node map of that moment (in one of the orders the map
\* can be ranged over); the request is left as it was and is not forwarded.
C7_IDResponseIsCopy ==
    \A i \in 1..Len(hlog) :
        IDRequestHandled(hlog[i]) =>
            /\ hlog[i].r /= None
            /\ hlog[i].r[1].NodeID = hlog[i].m.NodeID
            /\ hlog[i].r[1].ChildSensorID = hlog[i].m.ChildSensorID
            /\ hlog[i].r[1].Type = hlog[i].m.Type
            /\ hlog[i].r[1].Ack = hlog[i].m.Ack
            /\ hlog[i].r[1].SubType = SubTypeInternal(I_ID_RESPONSE)
            /\ \E o \in Orders(DOMAIN hlog[i].nodes) :
                  hlog[i].r[1].Payload = Itoa(NextNodeID(IDsInOrder(hlog[i].nodes, o)))
            /\ hlog[i].after = hlog[i].m

\* An ID_REQUEST was answered on a Network that had a node already, with an
\* ID other than the first.
C7_Witness ==
    \E i \in 1..Len(hlog) :
        /\ IDRequestHandled(hlog[i])
        /\ DOMAIN hlog[i].nodes /= {}
        /\ hlog[i].r /= None
        /\ hlog[i].r[1].Payload /= Itoa(FirstNodeID)

\* C8: Unmarshal(Marshal(m)) succeeds and gives back m, for every valid
\* Message m of any of the five Types.
C8_RoundTrip ==
    op = "roundtrip" => (~res.err /\ res.m = arg.m)

\* A valid decimal integer: an optional sign, then one or more digits.
ValidDecimalBody(s) ==
    s /= <<>> /\ \A i \in 1..Len(s) : s[i] \in {"0", "1", "2", "3", "4", "5", "6", "7", "8", "9"}
ValidDecimal(s) ==
    IF s /= <<>> /\ s[1] \in {"+", "-"} THEN ValidDecimalBody(Tail(s))
    ELSE ValidDecimalBody(s)

\* One of the first four fields of the line is no valid decimal integer.
BadLeadingField(fields) ==
    \E i \in 1..4 : i <= Len(fields) /\ ~ValidDecimal(fields[i])

IsForwarded(m) ==
    \/ m.Type \in {MsgPresentation, MsgSet, MsgReq}
    \/ m.Type = MsgInternal /\ ~(IsIDRequest(m) \/ IsConfig(m) \/ IsTime(m))

\* The messages of hlog[1..n] that are of the forwarded kind, in order.
RECURSIVE ForwardedUpTo(_)
ForwardedUpTo(n) ==
    IF n = 0 THEN <<>>
    ELSE IF IsForwarded(hlog[n].m) THEN Append(ForwardedUpTo(n - 1), hlog[n].m)
    ELSE ForwardedUpTo(n - 1)

\* The messages main has received on h.c are those the Handler was to
\* forward, in order, but for one the Handler is still sending.
ReceivedAreForwarded(f) ==
    /\ Len(f) = Len(fwdlog) + (IF hpc = "forward" THEN 1 ELSE 0)
    /\ fwdlog = SubSeq(f, 1, Len(fwdlog))

\* C10: the Handler sends a message on h.c if and only if it is a
\* Presentation, Set or Req, or an Internal other than ID_REQUEST, CONFIG
\* and TIME; no ID_REQUEST, CONFIG or TIME reaches Network.HandleMessage
\* or the bus; and the Handler builds no reply for a message it forwards.
C10_ForwardedIffNotAnswered ==
    /\ \A i \in 1..Len(hlog) :
         /\ hlog[i].fwd <=> IsForwarded(hlog[i].m)
         /\ IsForwarded(hlog[i].m) => hlog[i].r = None
    /\ ReceivedAreForwarded(ForwardedUpTo(Len(hlog)))
    /\ \A i \in 1..Len(netlog) : IsForwarded(netlog[i])
    /\ \A i \in 1..Len(bus) : IsForwarded(bus[i])

\* An ID_REQUEST was answered by the Handler and kept from the Network,
\* and a forwarded message has passed the bus and Network.HandleMessage.
C10_Witness ==
    /\ \E i \in 1..Len(hlog) : IsIDRequest(hlog[i].m) /\ hlog[i].r /= None
    /\ fwdlog /= <<>> /\ bus /= <<>> /\ netlog /= <<>>
    /\ \E i \in 1..Len(hlog) : hlog[i].m.Type = MsgInternal /\ hlog[i].fwd

\* C11: the node map is never accessed by two tasks at once: the Handler
\* is never about to range over it (NextNodeID) while main is about to run
\* Network.HandleMessage on it, the two steps being ordered by nothing.
C11_NoConcurrentAccess == ~(HandlerReadsNodes /\ MainWritesNodes)

\* The messages main has taken from h.c are the first of f, in order, and
\* Network.HandleMessage has been called on each of them in that order, but
\* for the last while main still holds it.
HandledInOrder(f) ==
    /\ Len(fwdlog) <= Len(f)
    /\ fwdlog = SubSeq(f, 1, Len(fwdlog))
    /\ Len(netlog) = Len(fwdlog) - (IF mpc \in {"mqtt", "handle"} THEN 1 ELSE 0)
    /\ netlog = SubSeq(f, 1, Len(netlog))

\* C12: Network.HandleMessage handles the forwarded messages in exactly the
\* order in which they were read from the link, one at a time: the calls
\* made so far are on the first forwarded messages read, in reading order,
\* and a call begins only when main has come back from the one before.
C12_HandledInReadOrder ==
    /\ [](HandledInOrder(SelectSeq(rxlog, IsForwarded)))
    /\ [][netlog' /= netlog => (mpc = "handle" /\ netlog' = Append(netlog, mm))]_vars

\* Two different forwarded messages were handled, and a message that is
\* not forwarded was read as well.
C12_Witness ==
    /\ Len(netlog) >= 2
    /\ netlog[1] /= netlog[2]
    /\ \E i \in 1..Len(rxlog) : ~IsForwarded(rxlog[i])

\* The keys of the node map nds and of the sensor maps in it are the
\* decimal strings of the IDs held under them.
KeyedByID(nds) ==
    \A k \in DOMAIN nds :
        /\ k = Itoa(nds[k].ID)
        /\ \A sk \in DOMAIN nds[k].Sensors : sk = Itoa(nds[k].Sensors[sk].ID)

\* Every Node and Sensor entry of the node map a is an entry of b.
EntriesKept(a, b) ==
    /\ DOMAIN a \subseteq DOMAIN b
    /\ \A k \in DOMAIN a : DOMAIN a[k].Sensors \subseteq DOMAIN b[k].Sensors

\* C13: from an empty Network on, the node map has an entry for exactly
\* the NodeIDs of the messages handled (0 included), each under the decimal
\* string of its Node.ID, each sensor map is keyed by the decimal string of
\* the Sensor.ID held, and no Node or Sensor entry is ever removed.
C13_NodeMapTracksMessages ==
    /\ [](DOMAIN nodes = {Itoa(calls[i].m.NodeID) : i \in 1..Len(calls)})
    /\ [](KeyedByID(nodes))
    /\ [][EntriesKept(nodes, nodes')]_vars

\* Messages of the gateway (node 0) and of node 4 were handled, and both
\* Nodes hold a Sensor.
C13_Witness ==
    /\ DOMAIN nodes = {Itoa(GatewayID), Itoa(4)}
    /\ \A k \in DOMAIN nodes : DOMAIN nodes[k].Sensors /= {}
    /\ Len(calls) = MaxCalls

\* The kind the claim gives the Variable of subtype t.
ClaimedKind(t) ==
    IF t \in {V_TEMP, V_HUM, V_PRESSURE, V_LEVEL, V_VOLUME, V_VOLTAGE, V_LIGHT_LEVEL}
    THEN "float" ELSE "string"

\* Every Variable of the node map nds has the kind of its subtype.
KindsAsClaimed(nds) ==
    \A k \in DOMAIN nds : \A sk \in DOMAIN nds[k].Sensors :
        \A t \in DOMAIN nds[k].Sensors[sk].Vars :
            nds[k].Sensors[sk].Vars[t].Type = ClaimedKind(t)

\* The Variables of the node map a are Variables of b, of the same kind.
KindsKept(a, b) ==
    \A k \in DOMAIN a : \A sk \in DOMAIN a[k].Sensors :
        \A t \in DOMAIN a[k].Sensors[sk].Vars :
            /\ k \in DOMAIN b /\ sk \in DOMAIN b[k].Sensors
            /\ t \in DOMAIN b[k].Sensors[sk].Vars
            /\ b[k].Sensors[sk].Vars[t].Type = a[k].Sensors[sk].Vars[t].Type

\* Call c is a Set to a sensor that returned.
IsSensorSet(c) == c.m.Type = MsgSet /\ c.m.ChildSensorID /= NoChild /\ ~c.o.panic

\* The sensor call c addressed, and its Variable for the message's
\* subtype, in the node map nds.
SensorOf(nds, c) == nds[Itoa(c.m.NodeID)].Sensors[Itoa(c.m.ChildSensorID)]
VarOf(nds, c) == SensorOf(nds, c).Vars[c.m.SubType.v]
HasVar(nds, c) ==
    /\ Itoa(c.m.NodeID) \in DOMAIN nds
    /\ Itoa(c.m.ChildSensorID) \in DOMAIN nds[Itoa(c.m.NodeID)].Sensors
    /\ c.m.SubType.v \in DOMAIN SensorOf(nds, c).Vars

\* C14: the kind of a Variable is decided by its subtype when the first
\* Set for the subtype is handled (Float for TEMP, HUM, PRESSURE, LEVEL,
\* VOLUME, VOLTAGE and LIGHT_LEVEL, String for the others) and is the same
\* after every later message, whatever the payloads.
C14_VarKindFixed ==
    /\ [](KindsAsClaimed(nodes))
    /\ [](\A i \in 1..Len(calls) : IsSensorSet(calls[i]) => HasVar(calls[i].o.obj, calls[i]))
    /\ [][KindsKept(nodes, nodes')]_vars

\* A Float Variable created by a Set with a text payload and a String
\* Variable created by a Set are held by the same sensor.
C14_Witness ==
    /\ Len(calls) >= 2
    /\ IsSensorSet(calls[1]) /\ calls[1].m.SubType.v = V_TEMP /\ calls[1].m.Payload = PText
    /\ IsSensorSet(calls[2]) /\ calls[2].m.SubType.v = V_STATUS
    /\ HasVar(nodes, calls[1]) /\ VarOf(nodes, calls[1]).Type = "float"
    /\ HasVar(nodes, calls[2]) /\ VarOf(nodes, calls[2]).Type = "string"

\* A text that is a decimal number: an optional sign, then digits with at
\* most one point among them, and a digit at least.
NumberChars == {"0", "1", "2", "3", "4", "5", "6", "7", "8", "9", "."}
NumericBody(s) ==
    /\ \A i \in 1..Len(s) : s[i] \in NumberChars
    /\ Cardinality({i \in 1..Len(s) : s[i] = "."}) <= 1
    /\ \E i \in 1..Len(s) : s[i] /= "."
NumericText(s) ==
    IF s /= <<>> /\ s[1] \in {"+", "-"} THEN NumericBody(Tail(s)) ELSE NumericBody(s)

\* Call c is a Set to a sensor that held a Float Variable for the subtype.
IsSetOfFloatVar(c) ==
    IsSensorSet(c) /\ HasVar(c.nodes, c) /\ VarOf(c.nodes, c).Type = "float"

IsBadFloatSet(c) ==
    /\ IsSensorSet(c)
    /\ ClaimedKind(c.m.SubType.v) = "float"
    /\ ~NumericText(c.m.Payload)

\* C16: a Set for a Float-classified subtype whose payload is no number is
\* an error and is dropped: HandleMessage returns the error, no Variable is
\* created when the sensor had none for the subtype, and no gauge is set.
C16_BadFloatSetIsError ==
    \A i \in 1..Len(calls) :
        IsBadFloatSet(calls[i]) =>
            /\ calls[i].o.err
            /\ HasVar(calls[i].o.obj, calls[i]) => HasVar(calls[i].nodes, calls[i])
            /\ calls[i].o.gauge = <<>>

\* Call c is of a message to child 255 that is not Internal.
IsNodeLevelNonInternal(c) == c.m.ChildSensorID = 255 /\ c.m.Type /= MsgInternal

\* The Node of call c's message before the call (a Node just created has
\* no Sensors, Battery 0 and empty texts) and after it.
NodeBefore(c) ==
    IF Itoa(c.m.NodeID) \in DOMAIN c.nodes THEN c.nodes[Itoa(c.m.NodeID)]
    ELSE [Battery |-> 0, Version |-> <<>>, SketchName |-> <<>>, SketchVersion |-> <<>>,
          Sensors |-> <<>>]
NodeAfter(c) == c.o.obj[Itoa(c.m.NodeID)]

\* The Nodes a and b have the same Sensor entries, Battery, Version,
\* SketchName and SketchVersion.
SameNodeData(a, b) ==
    /\ DOMAIN a.Sensors = DOMAIN b.Sensors
    /\ a.Battery = b.Battery /\ a.Version = b.Version
    /\ a.SketchName = b.SketchName /\ a.SketchVersion = b.SketchVersion

\* C17: a message to child 255 whose Type is not Internal makes
\* HandleMessage return an error, creates no Sensor entry and changes none
\* of the Node's Battery, Version, SketchName and SketchVersion.
C17_NodeLevelMustBeInternal ==
    \A i \in 1..Len(calls) :
        IsNodeLevelNonInternal(calls[i]) =>
            /\ calls[i].o.err
            /\ SameNodeData(NodeBefore(calls[i]), NodeAfter(calls[i]))

\* Node 4 reported its battery level and a sketch name, and a Set to its
\* child 255 was then refused.
C17_Witness ==
    /\ Len(calls) = 3
    /\ IsNodeLevelNonInternal(calls[3])
    /\ calls[3].o.err
    /\ NodeAfter(calls[3]).Battery = 87
    /\ NodeAfter(calls[3]).SketchName = PText

\* Call c is of a Req routed to a sensor.
IsSensorReq(c) == c.m.Type = MsgReq /\ c.m.ChildSensorID /= NoChild

\* The Variables of the sensor call c addressed, in the node map nds (none
\* when the sensor is not there).
VarsOf(nds, c) ==
    IF /\ Itoa(c.m.NodeID) \in DOMAIN nds
       /\ Itoa(c.m.ChildSensorID) \in DOMAIN nds[Itoa(c.m.NodeID)].Sensors
    THEN SensorOf(nds, c).Vars ELSE <<>>

\* The reply r answers the Req of call c.
AnswersReq(r, c) ==
    /\ r.NodeID = c.m.NodeID /\ r.ChildSensorID = c.m.ChildSensorID
    /\ r.Type = c.m.Type /\ r.Ack = c.m.Ack /\ r.SubType = c.m.SubType
    /\ r.Payload = IF HasVar(c.nodes, c) THEN VarValue(VarOf(c.nodes, c)) ELSE <<"0">>

\* C18: every Req routed to a sensor produces one reply on tx, with the
\* request's NodeID, ChildSensorID, Type, Ack and SubType and the text of
\* the Variable's value as payload ("0" when the sensor has no Variable
\* for the subtype), and creates or changes no Variable.
C18_ReqAnswered ==
    \A i \in 1..Len(calls) :
        IsSensorReq(calls[i]) =>
            /\ ~calls[i].o.panic
            /\ calls[i].o.reply /= None
            /\ AnswersReq(calls[i].o.reply[1], calls[i])
            /\ VarsOf(calls[i].o.obj, calls[i]) = VarsOf(calls[i].nodes, calls[i])

\* The subtypes of the gauge table.
GaugeTable ==
    {V_TEMP, V_HUM, V_PRESSURE, V_LEVEL, V_LIGHT_LEVEL, V_VOLUME, V_PERCENTAGE, V_VOLTAGE}

\* The gauge of call c's subtype labelled with the location, node id and
\* sensor id of the sending node and sensor.
GaugeOf(c) ==
    <<c.m.SubType.v,
      <<NodeAfter(c).Location, Itoa(c.m.NodeID), Itoa(c.m.ChildSensorID)>> >>

\* Call c stored x and set its gauge to x, and left the other gauges alone.
StoredAndExported(c, x) ==
    /\ HasVar(c.o.obj, c) /\ VarOf(c.o.obj, c).FloatVal = x
    /\ GaugeOf(c) \in DOMAIN c.gaugesAfter /\ c.gaugesAfter[GaugeOf(c)] = x
    /\ \A g \in DOMAIN c.gauges : g /= GaugeOf(c) => c.gaugesAfter[g] = c.gauges[g]
    /\ DOMAIN c.gaugesAfter = DOMAIN c.gauges \cup {GaugeOf(c)}

\* C19: a Set with a numeric payload for a Float-classified subtype stores
\* the value in the sensor's Variable and sets the gauge of the subtype
\* labelled (location, node id, sensor id) to the same value; a Set for a
\* String-classified subtype, or for a subtype outside the gauge table,
\* changes no gauge.
C19_FloatSetExported ==
    \A i \in 1..Len(calls) :
        /\ (IsSensorSet(calls[i]) /\ ClaimedKind(calls[i].m.SubType.v) = "float"
               /\ NumericText(calls[i].m.Payload))
             => StoredAndExported(calls[i], ParseFloat(calls[i].m.Payload).val)
        /\ (calls[i].m.Type = MsgSet
               /\ (ClaimedKind(calls[i].m.SubType.v) = "string"
                     \/ calls[i].m.SubType.v \notin GaugeTable))
             => calls[i].gaugesAfter = calls[i].gauges

\* TEMP of sensor 1 of node 4 is 21.5 and so is the gauge (location, 4, 1),
\* after a Set of PERCENTAGE that left the gauges alone.
C19_Witness ==
    /\ Len(calls) >= 2
    /\ calls[1].m.Type = MsgSet /\ calls[1].m.SubType.v = V_PERCENTAGE
    /\ calls[2].m.Type = MsgSet /\ calls[2].m.SubType.v = V_TEMP
    /\ calls[2].m.NodeID = 4 /\ calls[2].m.ChildSensorID = 1
    /\ calls[2].m.Payload = PNum
    /\ calls[2].gaugesAfter = (<< V_TEMP, << <<>>, <<"4">>, <<"1">> >> >> :> 2150)

\* No Sensor of the node map nds has a Variable.
NoVariables(nds) ==
    \A k \in DOMAIN nds : \A sk \in DOMAIN nds[k].Sensors :
        DOMAIN nds[k].Sensors[sk].Vars = {}

\* C20: the snapshot SaveJson writes holds no Variables: when a Network is
\* saved and the snapshot loaded into a fresh Network, every Sensor loaded
\* has an empty variable map.
C20_SnapshotWithoutVars == op = "loaded" => NoVariables(nodes)

\* The node map SaveJson was given: the one the last call of HandleMessage
\* left behind.
SavedNodes == IF calls = <<>> THEN EmptyMap ELSE calls[Len(calls)].o.obj

\* Sensor b is Sensor a restored: the same ID and Presentation.
SensorRestored(a, b) == a.ID = b.ID /\ a.Presentation = b.Presentation

\* Node b is Node a restored: the same ID and attributes, and the same
\* Sensor keys with each Sensor restored.
NodeRestored(a, b) ==
    /\ a.ID = b.ID /\ a.Battery = b.Battery /\ a.Location = b.Location
    /\ a.Version = b.Version /\ a.SketchName = b.SketchName
    /\ a.SketchVersion = b.SketchVersion
    /\ DOMAIN a.Sensors = DOMAIN b.Sensors
    /\ \A k \in DOMAIN a.Sensors : SensorRestored(a.Sensors[k], b.Sensors[k])

\* C21: persistence round trip: SaveJson followed by LoadJson into a fresh
\* Network restores the same node keys, Node IDs and attributes, sensor
\* keys, Sensor IDs and Presentation values.
C21_SaveLoadRestores ==
    op = "loaded" =>
        /\ DOMAIN nodes = DOMAIN SavedNodes
        /\ \A k \in DOMAIN nodes : NodeRestored(SavedNodes[k], nodes[k])

\* The state file is a well-formed snapshot: an object whose member "Nodes"
\* holds Nodes.
WellFormedSnapshot(f) ==
    /\ f /= None
    /\ "Nodes" \in DOMAIN f[1]
    /\ \A k \in DOMAIN f[1].Nodes : DOMAIN f[1].Nodes[k] /= {"null"}

\* C22: LoadJson on a path where no file exists returns no error and
\* leaves the Network empty; LoadJson on a file that is not a well-formed
\* snapshot returns an error to the caller.
C22_LoadMissingOrMalformed ==
    op /= "boot" =>
        /\ (statefile = None /\ calls = <<>>) => (op = "net" /\ nodes = EmptyMap)
        /\ (statefile /= None /\ ~WellFormedSnapshot(statefile)) => op = "loaderror"

\* C23: on a read error from the link the shutdown is propagated through
\* the pipeline: once the reader has ended on the error and no step is left
\* to take, the Handler loop has ended (the read channel was closed and the
\* Handler closed the downstream channel) and main's loop has ended.
C23_ReadErrorClosesPipeline ==
    (rpc = "fatal" /\ AllBlocked) => (hpc = "done" /\ mpc = "done")

\* The sequence a is the beginning of the sequence b.
IsPrefix(a, b) == Len(a) <= Len(b) /\ \A i \in 1..Len(a) : a[i] = b[i]

\* C24: every message the Handler forwards downstream is handed to the bus
\* collaborator exactly once, unmodified and in reception order: what the
\* listener has published is at all times the beginning of what was
\* forwarded, and the pipeline does not come to rest (every goroutine
\* blocked) with a forwarded message not handed over.
C24_ForwardedReachBus ==
    /\ IsPrefix(bus, fwdlog)
    /\ (alive /\ AllBlocked) => bus = fwdlog

\* The calls of HandleMessage, among the first n, that handled a
\* Presentation message for Sensor sk of Node k.
PresentationsOf(k, sk, n) ==
    {i \in 1..n : /\ calls[i].m.Type = MsgPresentation
                  /\ Itoa(calls[i].m.NodeID) = k
                  /\ Itoa(calls[i].m.ChildSensorID) = sk}

\* The last of a non-empty set of call numbers.
LastOf(S) == CHOOSE i \in S : \A j \in S : j <= i

\* C25: a Sensor has no Presentation, a state distinguishable from every
\* presentation subtype (S_DOOR to S_MOISTURE), until a Presentation message
\* for it is handled, and from then on its Presentation is the subtype of
\* the last Presentation message handled for it.
C25_PresentationAbsentUntilPresented ==
    \A k \in DOMAIN nodes : \A sk \in DOMAIN nodes[k].Sensors :
        IF PresentationsOf(k, sk, Len(calls)) = {}
        THEN nodes[k].Sensors[sk].Presentation \notin S_DOOR..S_MOISTURE
        ELSE nodes[k].Sensors[sk].Presentation =
                 calls[LastOf(PresentationsOf(k, sk, Len(calls)))].m.SubType.v

\* Call c handled a BATTERY_LEVEL message for a Node.
IsBatteryLevel(c) ==
    /\ c.m.ChildSensorID = NoChild /\ c.m.Type = MsgInternal
    /\ c.m.SubType.v = I_BATTERY_LEVEL

\* C26: after any sequence of handled messages every Node's Battery is
\* between 0 and 100, and every gauge value emitted for a BATTERY_LEVEL
\* message is between 0.0 and 1.0 (in hundredths: 0 and FloatScale).
C26_BatteryInRange ==
    /\ \A k \in DOMAIN nodes : nodes[k].Battery \in 0..100
    /\ \A i \in 1..Len(calls) :
          IsBatteryLevel(calls[i]) =>
              \A g \in 1..Len(calls[i].o.gauge) : calls[i].o.gauge[g].v \in 0..FloatScale

\* C27: the ID carried by an ID_RESPONSE is never the NodeID of a message
\* that was read from the link before the ID_REQUEST, whatever the
\* interleaving of the Handler's loop and main's loop.
C27_ResponseIDIsFresh ==
    \A i \in 1..Len(hlog) :
        (IDRequestHandled(hlog[i]) /\ hlog[i].r /= None) =>
            \A j \in 1..(i - 1) : hlog[i].r[1].Payload /= Itoa(hlog[j].m.NodeID)

\* C28: every message the Handler forwards on h.c is eventually handled by
\* Network.HandleMessage and the Handler's loop eventually takes the next
\* message, with or without a broker: the pipeline does not come to rest
\* (every goroutine blocked) with a forwarded message that was not handled,
\* with the Handler blocked in a send, or with the reader holding a message
\* the Handler does not take.
C28_ForwardedAreHandled ==
    (alive /\ AllBlocked) =>
        (netlog = fwdlog /\ hpc = "recv" /\ rpc = "read")

\* C29: for every set of existing Node IDs in 0..255 and every order of
\* the range over the node map, NextNodeID returns neither 0, the
\* gateway's ID, nor the ID of a Node of the Network.
C29_NextNodeIDIsNewAndNotGateway ==
    op = "nextnodeid" =>
        /\ res.id /= GatewayID
        /\ \A i \in 1..Len(arg.ids) : res.id /= arg.ids[i]

\* C30: every decoded message is handled by Network.HandleMessage without
\* crashing the process, whatever its Type and its subtype number: no call
\* ends in a panic, and after each call main's loop is alive, at its
\* receive or at the send of the reply.
C30_HandledWithoutCrash ==
    /\ \A i \in 1..Len(calls) : ~calls[i].o.panic
    /\ (calls /= <<>> /\ op \in {"net", "resumed"}) => alive

\* C31: a decoded Message's NodeID and ChildSensorID are the integers
\* written in the first two fields of the line: a line whose node or child
\* field is outside 0..255 is never decoded into a Message carrying another
\* ID.
C31_IDsAsWritten ==
    (op = "unmarshal" /\ ~res.err) =>
        /\ res.m.NodeID = Atoi(arg.fields[1]).val
        /\ res.m.ChildSensorID = Atoi(arg.fields[2]).val

====
